---- MODULE Spec2Model ----
(***************************************************************************)
(* Model of pysisyphus/optimizers/guess_hessians.py: the four diagonal     *)
(* guess-Hessian generators (simple, Fischer, Lindh, Swart) acting on a    *)
(* geometry (atoms, coords3d, internal._prim_coords, internal.bond_factor),*)
(* and of the iterative back-transformation RedundantCoords.transform that *)
(* the tests call.                                                         *)
(*                                                                         *)
(* Numbers.  Lengths are integers (all distances of the layouts used are   *)
(* integers).  bond_factor is held in tenths.  A floating point force      *)
(* constant is held as the tuple of the operands of its closed form:       *)
(*    <<c>>                 the constant c * 10^-4                         *)
(*    <<c, f1, ..., fn>>    c * 10^-4 times the factors f1..fn             *)
(* with the meaning of a factor given at the function that produces it.    *)
(* Atom indices are 0-based as in the source; index tuples (inds),         *)
(* _prim_coords, h_diag and the rows of a Hessian are 1-based sequences.   *)
(***************************************************************************)
EXTENDS Integers, Sequences, FiniteSets, TLC

\* ------------------------------------------------------------------ bounds
\* Largest number of atoms of a geometry.
MaxAtoms == 4
\* Largest number of primitive internal coordinates of a geometry.
MaxPrims == 3
\* Largest residual norm (in units of the convergence tolerance) that one
\* back-transformation cycle can leave.
MaxResidual == 4
\* The hard maximum number of cycles of the back-transformation.
MaxCycles == 5

VARIABLES
    atoms,          \* geom.atoms: element symbols, 0-based
    coords3d,       \* geom.coords3d: one point per atom
    prim_coords,    \* geom.internal._prim_coords: sequence of index tuples
    bond_factor,    \* geom.internal.bond_factor, in tenths
    last,           \* name of the generator called last, or "none"
    repeated,       \* the last call repeated the call before it
    out,            \* what the last call returned or raised
    t_pc,           \* transform: "idle", "iterating", "done"
    t_cycle,        \* transform: cycles performed
    t_resid,        \* transform: residual norm after the last cycle
    t_best,         \* transform: <<cycle, residual>> of the best geometry
    t_ret           \* transform: what was returned

geom_vars == <<atoms, coords3d, prim_coords, bond_factor>>
call_vars == <<last, repeated, out>>
t_vars == <<t_pc, t_cycle, t_resid, t_best, t_ret>>
vars == <<atoms, coords3d, prim_coords, bond_factor, last, repeated, out,
          t_pc, t_cycle, t_resid, t_best, t_ret>>

\* ------------------------------------------------------- element data
\* Element symbols as they may appear in geom.atoms.  "Xx" is no element.
KnownSymbols == {"H", "he", "C"}
Symbols == KnownSymbols \cup {"Xx"}

\* str.lower() on the symbols above.
lower(a) ==
    CASE a = "H"  -> "h"
      [] a = "he" -> "he"
      [] a = "C"  -> "c"
      [] a = "Xx" -> "xx"

\* pysisyphus.elem_data.COVALENT_RADII: lower-case symbol -> radius.
COVALENT_RADII == [h |-> 1, he |-> 3, c |-> 5]

\* ------------------------------------------------------------ geometry
\* The geometry snapshot handed to a generator.
Geom ==
    [atoms |-> atoms, coords3d |-> coords3d,
     prim_coords |-> prim_coords, bond_factor |-> bond_factor]

NAtoms(geom) == Cardinality(DOMAIN geom.atoms)

\* geom.internal.dihedrals: the primitives with four indices.
dihedrals(geom) == SelectSeq(geom.prim_coords, LAMBDA p : Len(p) = 4)

\* Integer square root (exact on the distances that occur).
RECURSIVE ISqrtFrom(_, _)
ISqrtFrom(n, r) == IF (r + 1) * (r + 1) > n THEN r ELSE ISqrtFrom(n, r + 1)
\* The squared distances of the layouts lie below this.
MaxSquaredDistance == (5 * (MaxAtoms + 1)) * (5 * (MaxAtoms + 1)) + 144
ISqrtTable == [n \in 0..MaxSquaredDistance |-> ISqrtFrom(n, 0)]
ISqrt(n) == ISqrtTable[n]

\* Euclidean distance of two points.
euclidean(p, q) ==
    ISqrt((p[1] - q[1]) * (p[1] - q[1]) + (p[2] - q[2]) * (p[2] - q[2])
          + (p[3] - q[3]) * (p[3] - q[3]))

\* itertools.combinations(range(n), 2): the pairs (i, j), i < j, in
\* lexicographic order, as a 1-based sequence.
RECURSIVE combinations_from(_, _, _)
combinations_from(n, i, j) ==
    IF i >= n - 1 THEN <<>>
    ELSE IF j >= n THEN combinations_from(n, i + 1, i + 2)
    ELSE <<(<<i, j>>)>> \o combinations_from(n, i, j + 1)
combinations_table == [n \in 0..(MaxAtoms + 1) |-> combinations_from(n, 0, 1)]
combinations(n) == combinations_table[n]

\* scipy.spatial.distance.pdist: the condensed distance vector, entry k
\* (0-based) the distance of the k-th pair of the double loop i < j.
pdist(X) ==
    LET n == Cardinality(DOMAIN X)
        pairs == combinations(n)
    IN  [k \in 0..(Len(pairs) - 1) |->
            euclidean(X[pairs[k + 1][1]], X[pairs[k + 1][2]])]

\* scipy.spatial.distance.squareform on a condensed vector v for n points:
\* the symmetric n x n matrix with `zero` on the diagonal.
squareform(v, n, zero) ==
    LET idx(i, j) == n * i - ((i * (i + 1)) \div 2) + (j - i - 1)
    IN  [i \in 0..(n - 1) |-> [j \in 0..(n - 1) |->
            IF i = j THEN zero
            ELSE IF i < j THEN v[idx(i, j)] ELSE v[idx(j, i)]]]

\* numpy.diagflat on the list v: square, v on the diagonal, 0 elsewhere.
Zero == <<0>>
diagflat(v) ==
    [i \in 1..Len(v) |-> [j \in 1..Len(v) |-> IF i = j THEN v[i] ELSE Zero]]

\* ------------------------------------------------ get_pair_covalent_radii
\* The lower-cased atoms (line 20 and line 103).
lower_atoms(geom) == [i \in DOMAIN geom.atoms |-> lower(geom.atoms[i])]

\* COVALENT_RADII.get(a, 0): a missing radius defaults to 0.
covalent_radius_or_default(a) ==
    IF a \in DOMAIN COVALENT_RADII THEN COVALENT_RADII[a] ELSE 0

\* COVALENT_RADII[a] (line 21): the radius, or -1 where the lookup raises
\* KeyError because a is no key of the table.
covalent_radius(a) ==
    IF a \in DOMAIN COVALENT_RADII THEN COVALENT_RADII[a] ELSE -1

\* Whether the list comprehension of line 21 completes.
radii_known(geom) ==
    \A i \in DOMAIN geom.atoms : covalent_radius(lower(geom.atoms[i])) # -1

\* The condensed vector of r1 + r2 over combinations(cov_radii, 2).
get_pair_covalent_radii(geom) ==
    LET atoms_l == lower_atoms(geom)
        cov_radii == [i \in DOMAIN atoms_l |-> covalent_radius(atoms_l[i])]
        pairs == combinations(NAtoms(geom))
    IN  [k \in 0..(Len(pairs) - 1) |->
            cov_radii[pairs[k + 1][1]] + cov_radii[pairs[k + 1][2]]]

\* What a call returns: a matrix, or the exception that ended it.
Returned(H) == [status |-> "ok", H |-> H]
Raised(exc) == [status |-> exc, H |-> <<>>]
NoCall == [status |-> "none", H |-> <<>>]

\* ----------------------------------------------------------- fischer_guess
\* bond_mat with cdm < pair_cov_radii * bond_factor.
bond_mat_strict(geom) ==
    LET n == NAtoms(geom)
        cdm == pdist(geom.coords3d)
        pair_cov_radii == get_pair_covalent_radii(geom)
    IN  squareform([k \in DOMAIN cdm |->
                       10 * cdm[k] < pair_cov_radii[k] * geom.bond_factor],
                   n, FALSE)

\* bond_mat = squareform(cdm <= pair_cov_radii * bond_factor) (line 36)
bond_mat(geom) ==
    LET n == NAtoms(geom)
        cdm == pdist(geom.coords3d)
        pair_cov_radii == get_pair_covalent_radii(geom)
    IN  squareform([k \in DOMAIN cdm |->
                       10 * cdm[k] <= pair_cov_radii[k] * geom.bond_factor],
                   n, FALSE)

\* bond_mat[a].sum()
row_sum(mat, a) == Cardinality({j \in DOMAIN mat[a] : mat[a][j]})

\* central_atoms taken from the bends as well as from the dihedrals.
central_atoms_with_bends(geom) ==
    LET ps == SelectSeq(geom.prim_coords, LAMBDA p : Len(p) >= 3)
    IN  [k \in 1..Len(ps) |-> SubSeq(ps[k], 2, 3)]

\* central_atoms = [dh.inds[1:3] for dh in dihedrals] (line 34)
central_atoms(geom) ==
    LET dhs == dihedrals(geom)
    IN  [k \in 1..Len(dhs) |-> SubSeq(dhs[k], 2, 3)]

\* The dict tors_atom_bonds after the loop of lines 37-42.
tors_atom_bonds(geom) ==
    LET cas == central_atoms(geom)
        bm == bond_mat(geom)
    IN  [ab \in {cas[k] : k \in 1..Len(cas)} |->
            row_sum(bm, ab[1]) + row_sum(bm, ab[2]) - 2]

\* dist_mat = squareform(cdm) (line 44)
dist_mat(geom) == squareform(pdist(geom.coords3d), NAtoms(geom), 0)

\* pair_cov_radii_mat = squareform(pair_cov_radii) (line 45)
pair_cov_radii_mat(geom) ==
    squareform(get_pair_covalent_radii(geom), NAtoms(geom), 0)

\* The variables of fischer_guess that its inner functions close over.
fischer_env(geom) ==
    [dist_mat |-> dist_mat(geom),
     pair_cov_radii_mat |-> pair_cov_radii_mat(geom),
     tors_atom_bonds |-> tors_atom_bonds(geom)]

\* 0.3601 * exp(-1.944 * f1), f1 = r_ab - r_ab_cov
h_bond(env, inds) ==
    LET a == inds[1]
        b == inds[2]
        r_ab == env.dist_mat[a][b]
        r_ab_cov == env.pair_cov_radii_mat[a][b]
    IN  <<3601, r_ab - r_ab_cov>>

\* 0.089 + 0.11 / f1^(-0.42) * exp(-0.44 * f2),
\* f1 = r_ab_cov * r_ac_cov, f2 = r_ab + r_ac - r_ab_cov - r_ac_cov
h_bend(env, inds) ==
    LET b == inds[1]
        a == inds[2]
        c == inds[3]
        r_ab == env.dist_mat[a][b]
        r_ac == env.dist_mat[a][c]
        r_ab_cov == env.pair_cov_radii_mat[a][b]
        r_ac_cov == env.pair_cov_radii_mat[a][c]
    IN  <<890, r_ab_cov * r_ac_cov, r_ab + r_ac - r_ab_cov - r_ac_cov>>

\* 0.0015 + 14.0 * f1^0.57 / f2^4 * exp(-2.85 * f3),
\* f1 = bond_sum, f2 = r_ab * r_ab_cov, f3 = r_ab - r_ab_cov.
\* A key missing from tors_atom_bonds raises KeyError.
KeyErrorMark == <<"KeyError">>
h_dihedral(env, inds) ==
    LET a == inds[2]
        b == inds[3]
        r_ab == env.dist_mat[a][b]
        r_ab_cov == env.pair_cov_radii_mat[a][b]
    IN  IF <<a, b>> \notin DOMAIN env.tors_atom_bonds THEN KeyErrorMark
        ELSE LET bond_sum == env.tors_atom_bonds[<<a, b>>]
             IN  <<15, bond_sum, r_ab * r_ab_cov, r_ab - r_ab_cov>>

\* h_funcs[len(primitive.inds)](primitive)
h_funcs(env, inds) ==
    CASE Len(inds) = 2 -> h_bond(env, inds)
      [] Len(inds) = 3 -> h_bend(env, inds)
      [] Len(inds) = 4 -> h_dihedral(env, inds)
      [] OTHER -> KeyErrorMark

\* The loop of lines 77-80 with h_diag.insert(0, ...) for h_diag.append(...).
fischer_h_diag_prepend(geom) ==
    LET env == fischer_env(geom)
        n == Len(geom.prim_coords)
    IN  [k \in 1..n |-> h_funcs(env, geom.prim_coords[n + 1 - k])]

\* The loop of lines 77-80.
fischer_h_diag(geom) ==
    LET env == fischer_env(geom)
    IN  [k \in 1..Len(geom.prim_coords) |-> h_funcs(env, geom.prim_coords[k])]

fischer_guess(geom) ==
    IF ~radii_known(geom) THEN Raised("KeyError")
    ELSE LET h_diag == fischer_h_diag(geom)
         IN  IF \E k \in 1..Len(h_diag) : h_diag[k] = KeyErrorMark
             THEN Raised("KeyError")
             ELSE Returned(diagflat(h_diag))

\* ------------------------------------------------------------- lindh_guess
first_period == {"h", "he"}

\* get_alpha with a first_period that holds "h" alone.
get_alpha_h_only(atom1, atom2) ==
    IF atom1 = "h" /\ atom2 = "h" THEN 10000
    ELSE IF atom1 = "h" \/ atom2 = "h" THEN 3949
    ELSE 2800

\* get_alpha, in units of 10^-4
get_alpha(atom1, atom2) ==
    IF atom1 \in first_period /\ atom2 \in first_period THEN 10000
    ELSE IF atom1 \in first_period \/ atom2 \in first_period THEN 3949
    ELSE 2800

\* alphas = [get_alpha(a1, a2) for a1, a2 in it.combinations(atoms, 2)]
alphas(geom) ==
    LET atoms_l == lower_atoms(geom)
        pairs == combinations(NAtoms(geom))
    IN  [k \in 0..(Len(pairs) - 1) |->
            get_alpha(atoms_l[pairs[k + 1][1]], atoms_l[pairs[k + 1][2]])]

\* The number 0.0 that squareform puts on the diagonal of rhos.
RhoZero == <<>>

\* rhos = squareform(np.exp(alphas * (pair_cov_radii**2 - cdm**2))).
\* A rho is held as <<e>>: exp(e * 10^-4).
lindh_rhos(geom) ==
    LET al == alphas(geom)
        pair_cov_radii == get_pair_covalent_radii(geom)
        cdm == pdist(geom.coords3d)
    IN  squareform([k \in DOMAIN cdm |->
                       <<al[k] * (pair_cov_radii[k] * pair_cov_radii[k]
                                  - cdm[k] * cdm[k])>>],
                   NAtoms(geom), RhoZero)

\* The loop over range(primitive.inds.size): inds[i:i+2] of the last i is
\* short, and the pair is closed with the first atom.
rho_product_closed(rhos, inds) ==
    [i \in 1..Len(inds) |->
        rhos[inds[i]][inds[IF i = Len(inds) THEN 1 ELSE i + 1]]]

\* The loop "for i in range(primitive.inds.size-1)": the factors of
\* rho_product, in the order they are multiplied.
rho_product(rhos, inds) ==
    [i \in 1..(Len(inds) - 1) |-> rhos[inds[i]][inds[i + 1]]]

lindh_k_dict(n) ==
    CASE n = 2 -> 4500
      [] n = 3 -> 1500
      [] n = 4 -> 50

\* k_dict[len(primitive.inds)] * rho_product for every primitive
lindh_k_diag(geom) ==
    LET rhos == lindh_rhos(geom)
    IN  [k \in 1..Len(geom.prim_coords) |->
            <<lindh_k_dict(Len(geom.prim_coords[k]))>>
                \o rho_product(rhos, geom.prim_coords[k])]

lindh_guess(geom) ==
    IF ~radii_known(geom) THEN Raised("KeyError")
    ELSE Returned(diagflat(lindh_k_diag(geom)))

\* ------------------------------------------------------------ simple_guess
\* h_dict with the constants of lindh_guess's k_dict.
h_dict_lindh(n) == lindh_k_dict(n)

h_dict(n) ==
    CASE n = 2 -> 5000
      [] n = 3 -> 2000
      [] n = 4 -> 1000

simple_h_diag(geom) ==
    [k \in 1..Len(geom.prim_coords) |-> <<h_dict(Len(geom.prim_coords[k]))>>]

simple_guess(geom) == Returned(diagflat(simple_h_diag(geom)))

\* ------------------------------------------------------------- swart_guess
\* rhos = squareform(np.exp(-cdm/pair_cov_radii + 1)).
\* A rho is held as <<p, q>>: exp(p / q), p / q = 1 - cdm / pair_cov_radii.
swart_rhos(geom) ==
    LET pair_cov_radii == get_pair_covalent_radii(geom)
        cdm == pdist(geom.coords3d)
    IN  squareform([k \in DOMAIN cdm |->
                       <<pair_cov_radii[k] - cdm[k], pair_cov_radii[k]>>],
                   NAtoms(geom), RhoZero)

swart_k_dict(n) ==
    CASE n = 2 -> 3500
      [] n = 3 -> 1500
      [] n = 4 -> 50

swart_k_diag(geom) ==
    LET rhos == swart_rhos(geom)
    IN  [k \in 1..Len(geom.prim_coords) |->
            <<swart_k_dict(Len(geom.prim_coords[k]))>>
                \o rho_product(rhos, geom.prim_coords[k])]

swart_guess(geom) ==
    IF ~radii_known(geom) THEN Raised("KeyError")
    ELSE Returned(diagflat(swart_k_diag(geom)))

\* --------------------------------------------- RedundantCoords.transform
\* The iterative back-transformation of an internal step.  A Cartesian
\* geometry is named by the cycle that produced it (0: the geometry the
\* call started from); the residual norm between the target and the
\* achieved internal coordinates is a natural number, 0 standing for
\* "below the convergence tolerance".
NoReturn == [status |-> "none", geometry |-> 0, converged |-> FALSE]

\* Another cycle whenever the residual has not converged.
transform_continues_unbounded(cycle, resid) == resid > 0

\* Whether another cycle is started: the residual has not converged and
\* the budget is not used up.
transform_continues(cycle, resid) == resid > 0 /\ cycle < MaxCycles

\* What transform returns once the loop has ended.
transform_result(cycle, resid, best) ==
    IF resid = 0
    THEN [status |-> "ok", geometry |-> cycle, converged |-> TRUE]
    ELSE [status |-> "ok", geometry |-> best[1], converged |-> FALSE]

\* transform(internal_step) is called: the residual is the whole step.
TransformStart ==
    /\ t_pc = "idle"
    /\ \E step \in 0..MaxResidual :
          /\ t_resid' = step
          /\ t_best' = <<0, step>>
          /\ IF transform_continues(0, step)
             THEN t_pc' = "iterating" /\ t_ret' = t_ret
             ELSE t_pc' = "done" /\ t_ret' = transform_result(0, step, <<0, step>>)
    /\ t_cycle' = 0
    /\ UNCHANGED geom_vars
    /\ UNCHANGED call_vars

\* One cycle (i)-(v): the residual is fed back through B_inv, the step is
\* applied, and the new residual is whatever the linearisation leaves.
TransformCycle ==
    /\ t_pc = "iterating"
    /\ \E r \in 0..MaxResidual :
          LET cycle == t_cycle + 1
              best == IF r < t_best[2] THEN <<cycle, r>> ELSE t_best
          IN  /\ t_cycle' = cycle
              /\ t_resid' = r
              /\ t_best' = best
              /\ IF transform_continues(cycle, r)
                 THEN t_pc' = "iterating" /\ t_ret' = t_ret
                 ELSE t_pc' = "done" /\ t_ret' = transform_result(cycle, r, best)
    /\ UNCHANGED geom_vars
    /\ UNCHANGED call_vars

\* ------------------------------------------------------- the geometries
\* Atom positions: atom i of a layout.  All distances are integers.
Layouts == {"line", "rect"}
LayoutPoint(l, i) ==
    IF l = "line" THEN <<5 * i, 0, 0>>
    ELSE CASE i % 4 = 0 -> <<0, 0, 0>>
           [] i % 4 = 1 -> <<5, 0, 0>>
           [] i % 4 = 2 -> <<5, 12, 0>>
           [] i % 4 = 3 -> <<0, 12, 0>>

\* bond_factor values, in tenths.
BondFactors == {13}

\* The primitives over n atoms along the chain 0-1-...-(n-1): bonds first,
\* then bends, then dihedrals.
Windows(n, len) == [s \in 1..(IF n >= len THEN n - len + 1 ELSE 0) |->
                       [i \in 1..len |-> s + i - 2]]
PrimPool(n) == Windows(n, 2) \o Windows(n, 3) \o Windows(n, 4)

\* The primitive sets handed in: the runs of at most MaxPrims consecutive
\* primitives of the pool.
PrimSets(n) ==
    LET pool == PrimPool(n)
    IN  {SubSeq(pool, s, e) : s \in 1..Len(pool),
                             e \in 0..Len(pool)} \cap
        UNION {[1..len -> {pool[k] : k \in 1..Len(pool)}] : len \in 0..MaxPrims}

\* The symbol lists of n atoms: every list of elements, and every such
\* list with its last atom replaced by a symbol that is no element.
AtomLists(n) ==
    LET known == [0..(n - 1) -> KnownSymbols]
    IN  known \cup {[a EXCEPT ![n - 1] = "Xx"] : a \in known}

\* The lower-cased symbols written back to geom.atoms.
atoms_lowered_in_place(geom) == lower_atoms(geom)

\* The geometry does not change under a call: the generators bind the
\* lower-cased symbols to a local list (lines 20, 103).
atoms_after_call(geom) == geom.atoms

Init ==
    /\ \E n \in 2..MaxAtoms :
          /\ atoms \in AtomLists(n)
          /\ \E l \in Layouts : coords3d = [i \in 0..(n - 1) |-> LayoutPoint(l, i)]
          /\ prim_coords \in PrimSets(n)
    /\ bond_factor \in BondFactors
    /\ last = "none"
    /\ repeated = FALSE
    /\ out = NoCall
    /\ t_pc = "idle"
    /\ t_cycle = 0
    /\ t_resid = 0
    /\ t_best = <<0, 0>>
    /\ t_ret = NoReturn

\* A call of generator `name`, whose result is `res`.  The optimizer uses
\* one model per run: it seeds its Hessian with it, and calls it again on a
\* Hessian reset.
Call(name, res, atoms_after) ==
    /\ t_pc = "idle"
    /\ last \in {"none", name}
    /\ out' = res
    /\ last' = name
    /\ repeated' = (last = name)
    /\ atoms' = atoms_after
    /\ UNCHANGED <<coords3d, prim_coords, bond_factor>>
    /\ UNCHANGED t_vars

CallSimpleGuess == Call("simple", simple_guess(Geom), atoms)
CallFischerGuess == Call("fischer", fischer_guess(Geom), atoms_after_call(Geom))
CallLindhGuess == Call("lindh", lindh_guess(Geom), atoms_after_call(Geom))
CallSwartGuess == Call("swart", swart_guess(Geom), atoms_after_call(Geom))

Next ==
    \/ CallSimpleGuess
    \/ CallFischerGuess
    \/ CallLindhGuess
    \/ CallSwartGuess

Spec == Init /\ [][Next]_vars

\* The back-transformation on one geometry (three atoms, two bonds and a
\* bend, as in test_h2o).  The loop runs to its end once it is entered.
InitTransform ==
    /\ atoms = [i \in 0..2 |-> IF i = 1 THEN "C" ELSE "H"]
    /\ coords3d = [i \in 0..2 |-> LayoutPoint("rect", i)]
    /\ prim_coords = PrimPool(3)
    /\ bond_factor = 13
    /\ last = "none"
    /\ repeated = FALSE
    /\ out = NoCall
    /\ t_pc = "idle"
    /\ t_cycle = 0
    /\ t_resid = 0
    /\ t_best = <<0, 0>>
    /\ t_ret = NoReturn

NextTransform ==
    \/ TransformStart
    \/ TransformCycle

SpecTransform ==
    InitTransform /\ [][NextTransform]_vars /\ WF_vars(NextTransform)

\* ================================================================ claims
\* What the claims speak of, computed from the atoms themselves and not
\* through the condensed vectors.
AtomIds == DOMAIN atoms
Radius(i) == covalent_radius(lower(atoms[i]))
RadiusSum(i, j) == Radius(i) + Radius(j)
Distance(i, j) == euclidean(coords3d[i], coords3d[j])
IsFirstPeriod(i) == atoms[i] \in {"H", "h", "He", "he", "HE", "hE"}
Kinds == [k \in 1..Len(prim_coords) |-> Len(prim_coords[k])]
CalledOk(name) == last = name /\ out.status = "ok"
Diagonal == [k \in 1..Len(out.H) |-> out.H[k][k]]

\* C1: every matrix a generator returns is square with one row per
\* primitive of _prim_coords, zero off the diagonal, and its k-th diagonal
\* entry is the force constant of the k-th primitive.
C1_DiagonalInPrimitiveOrder ==
    out.status = "ok" =>
        LET n == Len(prim_coords)
            H == out.H
            env == fischer_env(Geom)
            l_rhos == lindh_rhos(Geom)
            s_rhos == swart_rhos(Geom)
            fc(k) ==
                CASE last = "simple" -> <<h_dict(Len(prim_coords[k]))>>
                  [] last = "fischer" -> h_funcs(env, prim_coords[k])
                  [] last = "lindh" ->
                        <<lindh_k_dict(Len(prim_coords[k]))>>
                            \o rho_product(l_rhos, prim_coords[k])
                  [] last = "swart" ->
                        <<swart_k_dict(Len(prim_coords[k]))>>
                            \o rho_product(s_rhos, prim_coords[k])
        IN  /\ Len(H) = n
            /\ \A i \in 1..n : Len(H[i]) = n
            /\ \A i, j \in 1..n : i # j => H[i][j] = Zero
            /\ \A k \in 1..n : H[k][k] = fc(k)

\* A Fischer Hessian of three primitives of different kinds was returned.
C1_Witness ==
    /\ CalledOk("fischer")
    /\ Len(prim_coords) = 3
    /\ Kinds[1] # Kinds[3]
    /\ out.H[1][1] # out.H[3][3]

\* C2: the bond matrix of fischer_guess is symmetric, false on the
\* diagonal, and true for distinct atoms i, j exactly when
\* distance(i, j) <= bond_factor * (r_i + r_j), the equal case included.
C2_BondMatrix ==
    CalledOk("fischer") =>
        LET bm == bond_mat(Geom)
        IN  \A i, j \in AtomIds :
                /\ bm[i][j] = bm[j][i]
                /\ i = j => ~bm[i][j]
                /\ i # j =>
                     (bm[i][j] <=>
                        10 * Distance(i, j) <= bond_factor * RadiusSum(i, j))

\* Two atoms at exactly the threshold distance are bonded.
C2_Witness ==
    /\ CalledOk("fischer")
    /\ \E i, j \in AtomIds :
          /\ i # j
          /\ 10 * Distance(i, j) = bond_factor * RadiusSum(i, j)
          /\ bond_mat(Geom)[i][j]

\* The bonds of the bond matrix that involve a or b, the bond a-b excluded.
BondsAtCentralAtoms(a, b) ==
    LET bm == bond_mat(Geom)
    IN  {pr \in AtomIds \X AtomIds :
            /\ pr[1] < pr[2]
            /\ bm[pr[1]][pr[2]]
            /\ (pr[1] \in {a, b} \/ pr[2] \in {a, b})
            /\ {pr[1], pr[2]} # {a, b}}

\* C3: for every dihedral, bond_sum is the number of bonds at its two
\* central atoms without the bond between them, and is never negative.
C3_BondSumCountsBonds ==
    CalledOk("fischer") =>
        \A k \in 1..Len(prim_coords) :
            Len(prim_coords[k]) = 4 =>
                LET a == prim_coords[k][2]
                    b == prim_coords[k][3]
                    bond_sum == out.H[k][k][2]
                IN  /\ bond_sum = Cardinality(BondsAtCentralAtoms(a, b))
                    /\ bond_sum >= 0

\* C4 as claimed: with an atom that is no element of the radius table, every
\* generator ends in the unknown-element error and returns no matrix.
C4_EveryGeneratorRaises ==
    (last # "none" /\ \E i \in AtomIds : atoms[i] = "Xx") =>
        out.status = "KeyError"

\* C4 as amended: fischer_guess, lindh_guess and swart_guess end in the
\* KeyError of the radius lookup and return no matrix; simple_guess, which
\* looks up no radius, returns its matrix.
C4_RadiusLookupRaises ==
    (last # "none" /\ \E i \in AtomIds : atoms[i] = "Xx") =>
        IF last = "simple"
        THEN out.status = "ok" /\ Diagonal = simple_h_diag(Geom)
        ELSE out.status = "KeyError" /\ out.H = <<>>

\* Lindh was called on a geometry with primitives and an unknown element.
C4_Witness ==
    /\ last = "lindh"
    /\ out.status = "KeyError"
    /\ Len(prim_coords) > 0
    /\ \E i \in AtomIds : atoms[i] = "Xx"

\* C5: simple_guess puts 0.5 on the diagonal for a bond, 0.2 for a bend
\* and 0.1 for a dihedral, whatever the atoms and positions; for
\* [bond, bond, bend] the diagonal is [0.5, 0.5, 0.2].
C5_SimpleConstants ==
    last = "simple" =>
        /\ out.status = "ok"
        /\ Len(out.H) = Len(prim_coords)
        /\ \A k \in 1..Len(prim_coords) :
              out.H[k][k] = CASE Kinds[k] = 2 -> <<5000>>
                              [] Kinds[k] = 3 -> <<2000>>
                              [] Kinds[k] = 4 -> <<1000>>
        /\ Kinds = <<2, 2, 3>> => Diagonal = << <<5000>>, <<5000>>, <<2000>> >>

\* simple_guess was called on two bonds and a bend, one atom unknown.
C5_Witness ==
    /\ last = "simple"
    /\ Kinds = <<2, 2, 3>>
    /\ Diagonal = << <<5000>>, <<5000>>, <<2000>> >>
    /\ atoms[2] = "Xx"

C7_ToleratesMissingKinds ==
    (/\ last # "none"
     /\ radii_known(Geom)
     /\ (\A k \in 1..Len(Kinds) : Kinds[k] # 3)
          \/ (\A k \in 1..Len(Kinds) : Kinds[k] # 4)) =>
        /\ out.status = "ok"
        /\ Len(Diagonal) = Len(prim_coords)
        /\ \A k \in 1..Len(Diagonal) : Diagonal[k] # Zero
        /\ (last = "fischer" /\ \A k \in 1..Len(Kinds) : Kinds[k] # 4) =>
              DOMAIN tors_atom_bonds(Geom) = {}

\* fischer_guess returned a matrix for bonds and a bend without dihedrals.
C7_Witness ==
    /\ CalledOk("fischer")
    /\ Kinds = <<2, 2, 3>>
    /\ Len(out.H) = 3

\* C8: the back-transformation never performs more than MaxCycles cycles,
\* ends, and when the budget is used up without convergence it returns the
\* best geometry achieved together with converged = FALSE.
C8_TransformBounded ==
    /\ [](/\ t_cycle <= MaxCycles
          /\ t_pc = "done" =>
                /\ t_ret.status = "ok"
                /\ t_ret.converged = (t_resid = 0)
                /\ ~t_ret.converged =>
                      (t_ret.geometry = t_best[1] /\ t_best[2] <= t_resid))
    /\ <>(t_pc = "done")

\* The budget was used up without convergence.
C8_Witness ==
    /\ t_pc = "done"
    /\ t_cycle = MaxCycles
    /\ t_resid > 0
    /\ ~t_ret.converged
    /\ t_ret.geometry < t_cycle

\* The alpha of the claim for the atoms i, j.
ClaimedAlpha(i, j) ==
    IF IsFirstPeriod(i) /\ IsFirstPeriod(j) THEN 10000
    ELSE IF IsFirstPeriod(i) \/ IsFirstPeriod(j) THEN 3949
    ELSE 2800

\* C9: the rho of lindh_guess for the atoms i, j is built from the alpha of
\* that pair (1.0, 0.3949, 0.28 by the number of first-period atoms, the
\* case of the symbol ignored), from that pair's radius sum and distance.
C9_LindhAlphaPerPair ==
    CalledOk("lindh") =>
        LET rhos == lindh_rhos(Geom)
        IN  \A i, j \in AtomIds :
                i # j =>
                    rhos[i][j] =
                        <<ClaimedAlpha(i, j)
                            * (RadiusSum(i, j) * RadiusSum(i, j)
                               - Distance(i, j) * Distance(i, j))>>

\* Lindh returned a matrix for a geometry with pairs of all three classes.
C9_Witness ==
    /\ CalledOk("lindh")
    /\ Len(prim_coords) > 0
    /\ \E i, j \in AtomIds : i # j /\ atoms[i] = "H" /\ atoms[j] = "he"
    /\ \E i, j \in AtomIds : i # j /\ atoms[i] = "H" /\ atoms[j] = "C"
    /\ \E i, j \in AtomIds : i # j /\ atoms[i] = "C" /\ atoms[j] = "C"

\* C10: in lindh_guess and swart_guess the force constant of a primitive
\* is its kind constant times the rho of each pair of consecutive atoms of
\* its index tuple and of no other pair.
C10_ChainProduct ==
    (CalledOk("lindh") \/ CalledOk("swart")) =>
        LET rho == IF last = "lindh" THEN lindh_rhos(Geom) ELSE swart_rhos(Geom)
            kc(n) == IF last = "lindh"
                     THEN (CASE n = 2 -> 4500 [] n = 3 -> 1500 [] n = 4 -> 50)
                     ELSE (CASE n = 2 -> 3500 [] n = 3 -> 1500 [] n = 4 -> 50)
        IN  \A k \in 1..Len(prim_coords) :
                LET p == prim_coords[k]
                IN  out.H[k][k] =
                        CASE Len(p) = 2 -> <<kc(2), rho[p[1]][p[2]]>>
                          [] Len(p) = 3 ->
                                <<kc(3), rho[p[1]][p[2]], rho[p[2]][p[3]]>>
                          [] Len(p) = 4 ->
                                <<kc(4), rho[p[1]][p[2]], rho[p[2]][p[3]],
                                  rho[p[3]][p[4]]>>

\* Swart returned a matrix with a bend whose end atoms differ from its centre.
C10_Witness ==
    /\ CalledOk("swart")
    /\ \E k \in 1..Len(prim_coords) :
          /\ Len(prim_coords[k]) = 3
          /\ Len(out.H[k][k]) = 3
          /\ swart_rhos(Geom)[prim_coords[k][1]][prim_coords[k][3]]
                # out.H[k][k][2]

====
